---------------------------- MODULE Spec2Model ----------------------------
(***************************************************************************)
(* Model of src/app.py, the World Bank Development Indicators dashboard:   *)
(* load_data (read the CSV, normalise the headers, extract the year, drop  *)
(* the records without one, derive GDP_per_capita), the sidebar widgets,   *)
(* the filter, and the fifteen question views.                             *)
(*                                                                         *)
(* A column name or a date is a sequence of one-character strings, so     *)
(* that the header normaliser and the date parser work on characters.      *)
(* A float is a pair <<n, d>>: d > 0 is the rational n/d in lowest terms,   *)
(* <<0, 0>> is NaN (pandas' missing value), <<1, 0>> is +inf and           *)
(* <<-1, 0>> is -inf.  A table (DataFrame) is a record                     *)
(* [columns |-> sequence of names, rows |-> sequence of rows], a row being *)
(* a sequence of cells, one per column.                                    *)
(***************************************************************************)
EXTENDS Integers, Sequences, FiniteSets, TLC

VARIABLES
    csv,          \* world_bank_development_indicators.csv: FileMissing or a raw table
    cache,        \* what @st.cache_data holds for load_data: [ok, df]
    df,           \* the table load_data returned to the script, NotLoaded before
    countries,    \* value of the "Select Countries" multiselect
    year_range,   \* value of the "Year Range" slider, <<lo, hi>>
    question,     \* value of the "Choose a Research Question" selectbox
    filtered_df,  \* rows of df kept by the filter
    view,         \* the data the selected question hands to its chart
    page,         \* the elements the last run of the script rendered, in order
    pc            \* how far the script got: "start", "loaded", "filtered", "viewed",
                  \* "stopped" (st.stop), "raised" (uncaught exception), "done"

vars == <<csv, cache, df, countries, year_range, question, filtered_df, view, page, pc>>

-----------------------------------------------------------------------------
(* Column names, after normalisation, as the script refers to them.        *)

country ==
    <<"c","o","u","n","t","r","y">>
date ==
    <<"d","a","t","e">>
GDP_current_US ==
    <<"G","D","P","_","c","u","r","r","e","n","t","_","U","S">>
population ==
    <<"p","o","p","u","l","a","t","i","o","n">>
CO2_emisions ==
    <<"C","O","2","_","e","m","i","s","i","o","n","s">>
life_expectancy_at_birth ==
    <<"l","i","f","e","_","e","x","p","e","c","t","a","n","c","y","_","a","t","_","b","i","r","t","h">>
renewvable_energy_consumptionpct ==
    <<"r","e","n","e","w","v","a","b","l","e","_","e","n","e","r","g","y","_","c","o","n","s","u","m","p","t","i","o","n","p","c","t">>
rural_population ==
    <<"r","u","r","a","l","_","p","o","p","u","l","a","t","i","o","n">>
access_to_electricitypct ==
    <<"a","c","c","e","s","s","_","t","o","_","e","l","e","c","t","r","i","c","i","t","y","p","c","t">>
government_expenditure_on_educationpct ==
    <<"g","o","v","e","r","n","m","e","n","t","_","e","x","p","e","n","d","i","t","u","r","e","_","o","n","_","e","d","u","c","a","t","i","o","n","p","c","t">>
human_capital_index ==
    <<"h","u","m","a","n","_","c","a","p","i","t","a","l","_","i","n","d","e","x">>
birth_rate ==
    <<"b","i","r","t","h","_","r","a","t","e">>
death_rate ==
    <<"d","e","a","t","h","_","r","a","t","e">>
individuals_using_internetpct ==
    <<"i","n","d","i","v","i","d","u","a","l","s","_","u","s","i","n","g","_","i","n","t","e","r","n","e","t","p","c","t">>
control_of_corruption_estimate ==
    <<"c","o","n","t","r","o","l","_","o","f","_","c","o","r","r","u","p","t","i","o","n","_","e","s","t","i","m","a","t","e">>
political_stability_estimate ==
    <<"p","o","l","i","t","i","c","a","l","_","s","t","a","b","i","l","i","t","y","_","e","s","t","i","m","a","t","e">>
forest_landpct ==
    <<"f","o","r","e","s","t","_","l","a","n","d","p","c","t">>
agricultural_landpct ==
    <<"a","g","r","i","c","u","l","t","u","r","a","l","_","l","a","n","d","p","c","t">>
military_expenditurepct ==
    <<"m","i","l","i","t","a","r","y","_","e","x","p","e","n","d","i","t","u","r","e","p","c","t">>
inflation_annualpct ==
    <<"i","n","f","l","a","t","i","o","n","_","a","n","n","u","a","l","p","c","t">>
government_health_expenditurepct ==
    <<"g","o","v","e","r","n","m","e","n","t","_","h","e","a","l","t","h","_","e","x","p","e","n","d","i","t","u","r","e","p","c","t">>
intentional_homicides ==
    <<"i","n","t","e","n","t","i","o","n","a","l","_","h","o","m","i","c","i","d","e","s">>
research_and_development_expenditurepct ==
    <<"r","e","s","e","a","r","c","h","_","a","n","d","_","d","e","v","e","l","o","p","m","e","n","t","_","e","x","p","e","n","d","i","t","u","r","e","p","c","t">>
year ==
    <<"y","e","a","r">>
GDP_per_capita ==
    <<"G","D","P","_","p","e","r","_","c","a","p","i","t","a">>

(* The headers of the CSV as the file spells them: the share columns end   *)
(* in '%' (comment on line 19).                                            *)
raw_renewvable_energy_consumption ==
    <<"r","e","n","e","w","v","a","b","l","e","_","e","n","e","r","g","y","_","c","o","n","s","u","m","p","t","i","o","n","%">>
raw_access_to_electricity ==
    <<"a","c","c","e","s","s","_","t","o","_","e","l","e","c","t","r","i","c","i","t","y","%">>
raw_government_expenditure_on_education ==
    <<"g","o","v","e","r","n","m","e","n","t","_","e","x","p","e","n","d","i","t","u","r","e","_","o","n","_","e","d","u","c","a","t","i","o","n","%">>
raw_individuals_using_internet ==
    <<"i","n","d","i","v","i","d","u","a","l","s","_","u","s","i","n","g","_","i","n","t","e","r","n","e","t","%">>
raw_forest_land ==
    <<"f","o","r","e","s","t","_","l","a","n","d","%">>
raw_agricultural_land ==
    <<"a","g","r","i","c","u","l","t","u","r","a","l","_","l","a","n","d","%">>
raw_military_expenditure ==
    <<"m","i","l","i","t","a","r","y","_","e","x","p","e","n","d","i","t","u","r","e","%">>
raw_inflation_annual ==
    <<"i","n","f","l","a","t","i","o","n","_","a","n","n","u","a","l","%">>
raw_government_health_expenditure ==
    <<"g","o","v","e","r","n","m","e","n","t","_","h","e","a","l","t","h","_","e","x","p","e","n","d","i","t","u","r","e","%">>
raw_research_and_development_expenditure ==
    <<"r","e","s","e","a","r","c","h","_","a","n","d","_","d","e","v","e","l","o","p","m","e","n","t","_","e","x","p","e","n","d","i","t","u","r","e","%">>

-----------------------------------------------------------------------------
(* Floats.                                                                 *)

NaN == <<0, 0>>
PosInf == <<1, 0>>
NegInf == <<-1, 0>>

Num(n) == <<n, 1>>

Abs(n) == IF n < 0 THEN -n ELSE n

Sgn(n) == IF n < 0 THEN -1 ELSE IF n > 0 THEN 1 ELSE 0

RECURSIVE GCD(_, _)
GCD(a, b) == IF b = 0 THEN a ELSE GCD(b, a % b)

(* n/d, d # 0, in lowest terms with a positive denominator.                *)
Frac(n, d) ==
    LET g == GCD(Abs(n), Abs(d))
    IN  <<(Sgn(d) * n) \div g, Abs(d) \div g>>

notna(x) == x # NaN

isfinite(x) == x[2] > 0

(* float64 addition.                                                       *)
FAdd(a, b) ==
    IF ~notna(a) \/ ~notna(b) THEN NaN
    ELSE IF ~isfinite(a) /\ ~isfinite(b) THEN (IF a = b THEN a ELSE NaN)
    ELSE IF ~isfinite(a) THEN a
    ELSE IF ~isfinite(b) THEN b
    ELSE Frac(a[1] * b[2] + b[1] * a[2], a[2] * b[2])

(* float64 division, as numpy's true_divide computes it: it never raises;  *)
(* x/0 is +inf or -inf for x # 0 and NaN for x = 0.                        *)
FDiv(a, b) ==
    IF ~notna(a) \/ ~notna(b) THEN NaN
    ELSE IF ~isfinite(a) /\ ~isfinite(b) THEN NaN
    ELSE IF ~isfinite(a) THEN <<a[1] * (IF b[1] < 0 THEN -1 ELSE 1), 0>>
    ELSE IF ~isfinite(b) THEN Num(0)
    ELSE IF b[1] = 0
         THEN (IF a[1] > 0 THEN PosInf ELSE IF a[1] < 0 THEN NegInf ELSE NaN)
    ELSE Frac(a[1] * b[2], a[2] * b[1])

(* a < b on floats; FALSE when either is NaN.                              *)
FLess(a, b) ==
    IF ~notna(a) \/ ~notna(b) THEN FALSE
    ELSE IF ~isfinite(a) /\ ~isfinite(b) THEN a[1] < b[1]
    ELSE a[1] * b[2] < b[1] * a[2]

-----------------------------------------------------------------------------
(* Tables.                                                                 *)

EmptyTable == [columns |-> <<>>, rows |-> <<>>]

FileMissing == [exists |-> FALSE, columns |-> <<>>, rows |-> <<>>]

File(cols, rws) == [exists |-> TRUE, columns |-> cols, rows |-> rws]

Range(s) == {s[i] : i \in DOMAIN s}

HasColumn(t, name) == name \in Range(t.columns)

(* Position of column `name` in table t.                                   *)
ColIndex(t, name) == CHOOSE i \in DOMAIN t.columns : t.columns[i] = name

(* t[name] of row r.                                                       *)
Cell(t, r, name) == r[ColIndex(t, name)]

-----------------------------------------------------------------------------
(* Column Normalizer: df.columns.str.strip().str.replace('%','pct')        *)
(*                                .str.replace(' ','_')                    *)

Whitespace == {" ", "\t", "\n", "\r"}

RECURSIVE LStrip(_)
LStrip(s) ==
    IF s # <<>> /\ Head(s) \in Whitespace THEN LStrip(Tail(s)) ELSE s

RECURSIVE RStrip(_)
RStrip(s) ==
    IF s # <<>> /\ s[Len(s)] \in Whitespace
    THEN RStrip(SubSeq(s, 1, Len(s) - 1)) ELSE s

Strip(s) == RStrip(LStrip(s))

(* str.replace(old, new) for a one-character old.                          *)
RECURSIVE Replace(_, _, _)
Replace(s, old, new) ==
    IF s = <<>> THEN <<>>
    ELSE (IF Head(s) = old THEN new ELSE <<Head(s)>>) \o Replace(Tail(s), old, new)

ReplacePercent(s) == Replace(s, "%", <<"p", "c", "t">>)

(* Variant: the arguments of the second replace exchanged.                 *)
ReplaceSpaceSwapped(s) == Replace(s, "_", <<" ">>)
ReplaceSpace(s) == Replace(s, " ", <<"_">>)

NormalizeColumn(h) == ReplaceSpace(ReplacePercent(Strip(h)))

NormalizeColumns(hs) == [i \in DOMAIN hs |-> NormalizeColumn(hs[i])]

-----------------------------------------------------------------------------
(* Year extraction: pd.to_datetime(df['date'], errors='coerce').dt.year    *)
(* on the CSV's dates, which are written YYYY-MM-DD.  A cell that is not a *)
(* calendar date of that form (an empty cell, other text, a month or day   *)
(* out of range) is coerced to NaT, whose year is NaN.                     *)

Digits == <<"0", "1", "2", "3", "4", "5", "6", "7", "8", "9">>

IsDigit(c) == c \in Range(Digits)

DigitVal(c) == (CHOOSE i \in DOMAIN Digits : Digits[i] = c) - 1

RECURSIVE Decimal(_)
Decimal(s) ==
    IF s = <<>> THEN 0
    ELSE 10 * Decimal(SubSeq(s, 1, Len(s) - 1)) + DigitVal(s[Len(s)])

IsLeap(y) == (y % 4 = 0 /\ y % 100 # 0) \/ y % 400 = 0

DaysInMonth(y, m) ==
    IF m = 2 THEN (IF IsLeap(y) THEN 29 ELSE 28)
    ELSE IF m \in {4, 6, 9, 11} THEN 30 ELSE 31

IsIsoDate(s) ==
    /\ Len(s) = 10
    /\ s[5] = "-" /\ s[8] = "-"
    /\ \A i \in {1, 2, 3, 4, 6, 7, 9, 10} : IsDigit(s[i])
    /\ LET y == Decimal(SubSeq(s, 1, 4))
           m == Decimal(SubSeq(s, 6, 7))
           d == Decimal(SubSeq(s, 9, 10))
       IN  m \in 1..12 /\ d \in 1..DaysInMonth(y, m)

ParseYear(s) == IF IsIsoDate(s) THEN Num(Decimal(SubSeq(s, 1, 4))) ELSE NaN

(* astype(int) of a defined float.                                         *)
AsInt(x) == x[1] \div x[2]

-----------------------------------------------------------------------------
(* load_data, lines 13-34.                                                 *)

(* df['year'] = pd.to_datetime(df['date'], errors='coerce').dt.year        *)
WithYear(t) ==
    [columns |-> Append(t.columns, year),
     rows |-> [i \in DOMAIN t.rows |->
                  Append(t.rows[i], ParseYear(Cell(t, t.rows[i], date)))]]

(* Variant: dropna() without subset, dropping a record with any missing    *)
(* number.                                                                 *)
DropAnyNa(t) ==
    LET Keep(r) == \A j \in DOMAIN r :
                       t.columns[j] \in {country, date} \/ notna(r[j])
    IN  [t EXCEPT !.rows = SelectSeq(t.rows, Keep)]
(* df = df.dropna(subset=['year'])                                         *)
DropNaYear(t) ==
    LET Keep(r) == notna(Cell(t, r, year))
    IN  [t EXCEPT !.rows = SelectSeq(t.rows, Keep)]

(* df['year'] = df['year'].astype(int)                                     *)
YearAsInt(t) ==
    LET y == ColIndex(t, year)
    IN  [t EXCEPT !.rows = [i \in DOMAIN t.rows |->
                               [t.rows[i] EXCEPT ![y] = AsInt(@)]]]

(* df['GDP_current_US'] / df['population'], one record.                    *)
Divide(g, p) == FDiv(g, p)

(* Lines 28-29.                                                            *)
WithGdpPerCapita(t) ==
    IF HasColumn(t, GDP_current_US) /\ HasColumn(t, population)
    THEN [columns |-> Append(t.columns, GDP_per_capita),
          rows |-> [i \in DOMAIN t.rows |->
                       Append(t.rows[i],
                              Divide(Cell(t, t.rows[i], GDP_current_US),
                                     Cell(t, t.rows[i], population)))]]
    ELSE t

(* The try block's outcome: ok and the table, or the exception caught on   *)
(* line 32 (no file: read_csv raises; no 'date' column: df['date'] raises).*)
load_data(file) ==
    IF ~file.exists THEN [ok |-> FALSE, df |-> EmptyTable]
    ELSE LET t0 == [columns |-> NormalizeColumns(file.columns), rows |-> file.rows]
         IN  IF ~HasColumn(t0, date) THEN [ok |-> FALSE, df |-> EmptyTable]
             ELSE [ok |-> TRUE,
                   df |-> WithGdpPerCapita(YearAsInt(DropNaYear(WithYear(t0))))]

-----------------------------------------------------------------------------
(* Sidebar widgets, lines 39-48 and 67-75.                                 *)

DefaultCountries == {"United States", "China", "India", "Germany", "Brazil"}

DefaultLo == 1990

(* The selectbox options (Q3 is spelt with a subscript 2 in the script).    *)
Q1 == "Q1 Global GDP Growth"
Q2 == "Q2 Wealth vs. Health"
Q3 == "Q3 Top CO2 Emitters"
Q4 == "Q4 Renewable Energy Transition"
Q5 == "Q5 Infrastructure & Electricity"
Q6 == "Q6 Education & Human Capital"
Q7 == "Q7 Birth & Death Rates"
Q8 == "Q8 The Digital Divide"
Q9 == "Q9 Governance & Stability"
Q10 == "Q10 Land Use Change"
Q11 == "Q11 Military Spending"
Q12 == "Q12 Economic Volatility (Inflation)"
Q13 == "Q13 Health Spending Outcomes"
Q14 == "Q14 Safety & Wealth"
Q15 == "Q15 Research & Innovation"

Questions == <<Q1, Q2, Q3, Q4, Q5, Q6, Q7, Q8, Q9, Q10, Q11, Q12, Q13, Q14, Q15>>

(* Values of column `name`, one per row.                                   *)
Column(t, name) ==
    LET c == ColIndex(t, name)
    IN  [i \in DOMAIN t.rows |-> t.rows[i][c]]

(* options=sorted(df['country'].unique()), as a set.                       *)
CountryOptions(t) == Range(Column(t, country))

Years(t) == Range(Column(t, year))

Max(S) == CHOOSE x \in S : \A y \in S : y <= x

Min(S) == CHOOSE x \in S : \A y \in S : x <= y

(* st.sidebar.multiselect raises when a default is not among the options.  *)
MultiselectRaises(t) == ~(DefaultCountries \subseteq CountryOptions(t))

(* int(df['year'].min()) raises on a table without rows (min is NaN), and  *)
(* st.sidebar.slider raises when the default value (1990, max_year) is not *)
(* within [min_year, max_year].                                            *)
SliderRaises(t) ==
    \/ t.rows = <<>>
    \/ ~(Min(Years(t)) <= DefaultLo /\ DefaultLo <= Max(Years(t)))

-----------------------------------------------------------------------------
(* Filter, lines 51-55: the statement's effect on both names.              *)

(* Variant: the upper end of the interval excluded.                        *)
InRangeExclusive(y, yr) == yr[1] <= y /\ y < yr[2]
(* (df['year'] >= year_range[0]) & (df['year'] <= year_range[1])           *)
InRange(y, yr) == yr[1] <= y /\ y <= yr[2]

FilterRows(t, sel, yr) ==
    LET c == ColIndex(t, country)
        y == ColIndex(t, year)
        Keep(r) == r[c] \in sel /\ InRange(r[y], yr)
    IN  [columns |-> t.columns, rows |-> SelectSeq(t.rows, Keep)]

(* Variant: the mask assigned back to df.                                  *)
FilterInPlace(t, sel, yr) ==
    [df |-> FilterRows(t, sel, yr), filtered_df |-> FilterRows(t, sel, yr)]
FilterEngine(t, sel, yr) ==
    [df |-> t, filtered_df |-> FilterRows(t, sel, yr)]

-----------------------------------------------------------------------------
(* Aggregations.                                                           *)

(* The elements of a finite set of integers in increasing order.           *)
RECURSIVE Sorted(_)
Sorted(S) == IF S = {} THEN <<>> ELSE <<Min(S)>> \o Sorted(S \ {Min(S)})

(* Series.sum(): NaN skipped, 0 for no defined value.                      *)
RECURSIVE SumSkipNa(_)
SumSkipNa(xs) ==
    IF xs = <<>> THEN Num(0)
    ELSE IF notna(Head(xs)) THEN FAdd(Head(xs), SumSkipNa(Tail(xs)))
    ELSE SumSkipNa(Tail(xs))

CountNotNa(xs) == Len(SelectSeq(xs, notna))

(* Variant: missing values counted in the denominator.                     *)
MeanAll(xs) ==
    IF xs = <<>> THEN NaN ELSE FDiv(SumSkipNa(xs), Num(Len(xs)))
(* Series.mean(): NaN skipped, NaN for no defined value.                   *)
MeanSkipNa(xs) ==
    IF CountNotNa(xs) = 0 THEN NaN ELSE FDiv(SumSkipNa(xs), Num(CountNotNa(xs)))

(* The rows of t of year y.                                                *)
YearGroup(t, y) ==
    LET c == ColIndex(t, year)
        Keep(r) == r[c] = y
    IN  [columns |-> t.columns, rows |-> SelectSeq(t.rows, Keep)]

(* t.groupby('year')[col].sum().reset_index()                              *)
SumByYear(t, col) ==
    LET ys == Sorted(Years(t))
    IN  [columns |-> <<year, col>>,
         rows |-> [i \in DOMAIN ys |->
                      <<ys[i], SumSkipNa(Column(YearGroup(t, ys[i]), col))>>]]

(* t.groupby('year')[[c1, c2]].mean().reset_index()                        *)
MeanByYear(t, c1, c2) ==
    LET ys == Sorted(Years(t))
    IN  [columns |-> <<year, c1, c2>>,
         rows |-> [i \in DOMAIN ys |->
                      <<ys[i], MeanSkipNa(Column(YearGroup(t, ys[i]), c1)),
                               MeanSkipNa(Column(YearGroup(t, ys[i]), c2))>>]]

(* t.dropna(subset=cols)                                                   *)
DropNa(t, cols) ==
    LET Keep(r) == \A c \in cols : notna(Cell(t, r, c))
    IN  [columns |-> t.columns, rows |-> SelectSeq(t.rows, Keep)]

TopN == 10

(* Rows in descending order of column col, equal values in their original  *)
(* order: insertion of each row after the rows that are not smaller.       *)
RECURSIVE SortDescending(_, _, _)
SortDescending(t, rws, col) ==
    IF rws = <<>> THEN <<>>
    ELSE LET r == rws[Len(rws)]
             s == SortDescending(t, SubSeq(rws, 1, Len(rws) - 1), col)
             Before(x) == ~FLess(Cell(t, x, col), Cell(t, r, col))
             After(x) == FLess(Cell(t, x, col), Cell(t, r, col))
         IN  SelectSeq(s, Before) \o <<r>> \o SelectSeq(s, After)

(* t.nlargest(n, col), keep='first'; t has no NaN in col.                  *)
NLargest(t, n, col) ==
    LET s == SortDescending(t, t.rows, col)
    IN  [columns |-> t.columns, rows |-> SubSeq(s, 1, IF Len(s) < n THEN Len(s) ELSE n)]

-----------------------------------------------------------------------------
(* Question views, lines 81-206.  A view yields the elements it renders    *)
(* and the data it hands to its chart (EmptyTable when it draws none).  A  *)
(* reference to a column the table lacks raises, which Streamlit shows as  *)
(* an exception, ending the run.                                           *)

Rendered(elements, data) == [page |-> elements, view |-> data]

Raised == Rendered(<<"subheader", "exception">>, EmptyTable)

Chart(data) == Rendered(<<"subheader", "pyplot">>, data)

Lacks(t, cols) == \E c \in cols : ~HasColumn(t, c)

(* Lines 81-88.                                                            *)
(* Variant: the sum taken over filtered_df.                                *)
GlobalGdpFiltered(t, f) ==
    IF Lacks(f, {GDP_current_US}) THEN Raised
    ELSE Chart(SumByYear(f, GDP_current_US))
GlobalGdp(t, f) ==
    IF Lacks(t, {GDP_current_US}) THEN Raised
    ELSE Chart(SumByYear(t, GDP_current_US))

(* Lines 90-101.                                                           *)
WealthVsHealth(t, f) ==
    IF Lacks(f, {GDP_per_capita, life_expectancy_at_birth}) THEN Raised
    ELSE LET data == DropNa(f, {GDP_per_capita, life_expectancy_at_birth})
         IN  IF data.rows # <<>>
             THEN Chart(YearGroup(data, Max(Years(data))))
             ELSE Rendered(<<"subheader", "warning">>, EmptyTable)

(* Variant: every record of the year kept.                                 *)
TopEmittersUncut(t, f) ==
    IF Lacks(t, {CO2_emisions}) THEN Raised
    ELSE LET latest_co2 == DropNa(t, {CO2_emisions})
         IN  IF latest_co2.rows # <<>>
             THEN Chart(NLargest(YearGroup(latest_co2, Max(Years(latest_co2))),
                                 Len(latest_co2.rows), CO2_emisions))
             ELSE Rendered(<<"subheader">>, EmptyTable)
(* Lines 103-112.                                                          *)
TopEmitters(t, f) ==
    IF Lacks(t, {CO2_emisions}) THEN Raised
    ELSE LET latest_co2 == DropNa(t, {CO2_emisions})
         IN  IF latest_co2.rows # <<>>
             THEN Chart(NLargest(YearGroup(latest_co2, Max(Years(latest_co2))),
                                 TopN, CO2_emisions))
             ELSE Rendered(<<"subheader">>, EmptyTable)

(* Lines 135-144 and 161-169.                                              *)
MeanView(f, c1, c2) ==
    IF Lacks(f, {c1, c2}) THEN Raised ELSE Chart(MeanByYear(f, c1, c2))

(* The views that plot two columns of the filtered table as they are.      *)
PlotColumns(q) ==
    CASE q = Q4 -> {year, renewvable_energy_consumptionpct}
      [] q = Q5 -> {rural_population, access_to_electricitypct}
      [] q = Q6 -> {government_expenditure_on_educationpct, human_capital_index}
      [] q = Q8 -> {GDP_per_capita, individuals_using_internetpct}
      [] q = Q9 -> {control_of_corruption_estimate, political_stability_estimate}
      [] q = Q11 -> {year, military_expenditurepct}
      [] q = Q12 -> {year, inflation_annualpct}
      [] q = Q13 -> {government_health_expenditurepct, life_expectancy_at_birth}
      [] q = Q14 -> {GDP_per_capita, intentional_homicides}
      [] q = Q15 -> {research_and_development_expenditurepct, GDP_current_US}

PlotView(f, q) ==
    IF Lacks(f, PlotColumns(q) \cup {country}) THEN Raised ELSE Chart(f)

(* The if/elif chain on `question`.                                        *)
QuestionView(t, f, q) ==
    CASE q = Q1 -> GlobalGdp(t, f)
      [] q = Q2 -> WealthVsHealth(t, f)
      [] q = Q3 -> TopEmitters(t, f)
      [] q = Q7 -> MeanView(f, birth_rate, death_rate)
      [] q = Q10 -> MeanView(f, forest_landpct, agricultural_landpct)
      [] OTHER -> PlotView(f, q)

(* The questions whose view reads filtered_df.                             *)
FilteredQuestions == Range(Questions) \ {Q1, Q3}

-----------------------------------------------------------------------------
(* One run of the script, top to bottom.  `w` is the widget state of the   *)
(* session: [set |-> FALSE] in a new session, where each widget takes its  *)
(* default, else the values the user left.                                 *)

NoCache == [ok |-> FALSE, df |-> EmptyTable]

NoWidgets == [set |-> FALSE, countries |-> {}, year_range |-> <<0, 0>>, question |-> Q1]

Widgets(c, yr, q) == [set |-> TRUE, countries |-> c, year_range |-> yr, question |-> q]

(* How a run ended ("stopped" by st.stop, "raised" an exception, "done"),  *)
(* and what it left.                                                       *)
Outcome(p, t, w, f, v, elements) ==
    [pc |-> p, df |-> t, cache |-> [ok |-> p # "stopped", df |-> t], countries |-> w.countries, year_range |-> w.year_range,
     question |-> w.question, filtered_df |-> f, view |-> v, page |-> elements]

(* Variant: no st.stop(), so the script runs on with df = None and raises  *)
(* on line 42.                                                             *)
LoadFailedNoStop(w) ==
    Outcome("raised", EmptyTable, NoWidgets, EmptyTable, EmptyTable,
            <<"title", "error", "sidebar.header", "exception">>)
(* Lines 32-34 after line 9: the title is on the page, st.error adds the   *)
(* message and st.stop ends the run.                                       *)
LoadFailed(w) ==
    Outcome("stopped", EmptyTable, NoWidgets, EmptyTable, EmptyTable,
            <<"title", "error">>)

(* @st.cache_data: the table of an earlier successful call is returned     *)
(* without running load_data's body; a call that ends in st.stop stores    *)
(* nothing.                                                                *)
CachedLoad(file, cached) == IF cached.ok THEN cached ELSE load_data(file)

RunScript(file, cached, w) ==
    LET loaded == CachedLoad(file, cached)
        t == loaded.df
    IN  IF ~loaded.ok THEN LoadFailed(w)
        ELSE IF MultiselectRaises(t) THEN
            Outcome("raised", t, NoWidgets, EmptyTable, EmptyTable,
                    <<"title", "sidebar.header", "exception">>)
        ELSE IF SliderRaises(t) THEN
            Outcome("raised", t, NoWidgets, EmptyTable, EmptyTable,
                    <<"title", "sidebar.header", "multiselect", "exception">>)
        ELSE
            LET now == IF w.set THEN w
                       ELSE Widgets(DefaultCountries, <<DefaultLo, Max(Years(t))>>, Q1)
                filt == FilterEngine(t, now.countries, now.year_range)
                shown == QuestionView(filt.df, filt.filtered_df, now.question)
                head == <<"title", "sidebar.header", "multiselect", "slider",
                          "selectbox", "divider">>
            IN  IF "exception" \in Range(shown.page)
                THEN Outcome("raised", filt.df, now, filt.filtered_df, shown.view,
                             head \o shown.page)
                ELSE Outcome("done", filt.df, now, filt.filtered_df, shown.view,
                             head \o shown.page \o <<"expander">>)

-----------------------------------------------------------------------------
(* The CSV files the dashboard is run on.                                  *)

(* The header row of world_bank_development_indicators.csv.                *)
CsvHeader ==
    <<country, date, GDP_current_US, population, CO2_emisions,
      life_expectancy_at_birth, raw_renewvable_energy_consumption,
      rural_population, raw_access_to_electricity,
      raw_government_expenditure_on_education, human_capital_index, birth_rate,
      death_rate, raw_individuals_using_internet, control_of_corruption_estimate,
      political_stability_estimate, raw_forest_land, raw_agricultural_land,
      raw_military_expenditure, raw_inflation_annual,
      raw_government_health_expenditure, intentional_homicides,
      raw_research_and_development_expenditure>>

(* The date of 1 January of year y, 1000 <= y <= 9999, as the file has it. *)
IsoDate(y) ==
    <<Digits[((y \div 1000) % 10) + 1], Digits[((y \div 100) % 10) + 1],
      Digits[((y \div 10) % 10) + 1], Digits[(y % 10) + 1],
      "-", "0", "1", "-", "0", "1">>

CountryOrder == <<"Brazil", "China", "Germany", "India", "United States">>

CountryIdx(c) == CHOOSE k \in DOMAIN CountryOrder : CountryOrder[k] = c

(* The record of country c and year y: some indicators missing, one        *)
(* population of zero.                                                     *)
AppRow(c, y) ==
    LET k == CountryIdx(c)
        o == y - DefaultLo
    IN  [j \in DOMAIN CsvHeader |->
            CASE j = 1 -> c
              [] j = 2 -> IsoDate(y)
              [] j = 3 -> IF (k + o) % 3 = 0 THEN NaN ELSE Num(100 * k + o)
              [] j = 4 -> IF k = 2 /\ o = 1 THEN Num(0) ELSE Num(10 * k)
              [] j = 5 -> IF (k + o) % 4 = 0 THEN NaN ELSE Num(k % 3)
              [] j = 6 -> IF k = 5 THEN NaN ELSE Num(60 + k)
              [] OTHER -> IF (j + k + o) % 3 = 0 THEN NaN ELSE Num(j + k)]

(* One record per country of cs and year of from..to, by country and year. *)
AppRows(cs, from, to) ==
    LET cseq == SelectSeq(CountryOrder, LAMBDA c : c \in cs)
        n == to - from + 1
    IN  [i \in 1..(Len(cseq) * n) |->
            AppRow(cseq[((i - 1) \div n) + 1], from + ((i - 1) % n))]

(* The column `name` cut out of a header and its rows.                     *)
WithoutColumn(file, name) ==
    LET k == CHOOSE i \in DOMAIN file.columns : file.columns[i] = name
        Cut(s) == SubSeq(s, 1, k - 1) \o SubSeq(s, k + 1, Len(s))
    IN  File(Cut(file.columns), [i \in DOMAIN file.rows |-> Cut(file.rows[i])])

MaxSpan == 1

(* All five default countries over 1990..1990+n.                           *)
AppFile(n) == File(CsvHeader, AppRows(DefaultCountries, DefaultLo, DefaultLo + n))

(* The complete files; no file; a file without a date column and one       *)
(* without a population column; a file that lacks a default country and    *)
(* one that starts after 1990.                                             *)
AppInputs ==
    {AppFile(n) : n \in 1..MaxSpan}
    \cup {FileMissing, WithoutColumn(AppFile(1), date),
          WithoutColumn(AppFile(1), population),
          File(CsvHeader, AppRows(DefaultCountries \ {"India"}, DefaultLo, DefaultLo + 1)),
          File(CsvHeader, AppRows(DefaultCountries, DefaultLo + 1, DefaultLo + 2))}

-----------------------------------------------------------------------------
(* The dashboard: a session's first run, then a rerun of the whole script  *)
(* on every interaction.                                                   *)

Is(o) ==
    /\ pc = o.pc /\ cache = o.cache /\ df = o.df /\ countries = o.countries
    /\ year_range = o.year_range /\ question = o.question
    /\ filtered_df = o.filtered_df /\ view = o.view /\ page = o.page

Becomes(o) ==
    /\ \E r \in {o} :
          /\ pc' = r.pc /\ cache' = r.cache /\ df' = r.df /\ countries' = r.countries
          /\ year_range' = r.year_range /\ question' = r.question
          /\ filtered_df' = r.filtered_df /\ view' = r.view /\ page' = r.page
    /\ UNCHANGED csv

Init ==
    /\ csv \in AppInputs
    /\ Is(RunScript(csv, NoCache, NoWidgets))

(* The user adds a country to the multiselect or removes one.              *)
SelectCountries ==
    /\ "multiselect" \in Range(page)
    /\ \E c \in CountryOptions(df) :
          LET sel == IF c \in countries THEN countries \ {c} ELSE countries \cup {c}
          IN  Becomes(RunScript(csv, cache, Widgets(sel, year_range, question)))

(* The user moves the slider's ends within [min_year, max_year].           *)
SetYearRange ==
    /\ "slider" \in Range(page)
    /\ \E lo \in Min(Years(df))..Max(Years(df)) :
          \E hi \in lo..Max(Years(df)) :
             Becomes(RunScript(csv, cache, Widgets(countries, <<lo, hi>>, question)))

ChooseQuestion ==
    /\ "selectbox" \in Range(page)
    /\ \E q \in Range(Questions) :
          Becomes(RunScript(csv, cache, Widgets(countries, year_range, q)))

(* The page is opened again: a new session, every widget at its default.   *)
Reload == Becomes(RunScript(csv, cache, NoWidgets))

Next == SelectCountries \/ SetYearRange \/ ChooseQuestion \/ Reload

Spec == Init /\ [][Next]_vars

-----------------------------------------------------------------------------
(* The pipeline's steps on their own: load_data, the filter and a view     *)
(* applied to tables drawn from bounded families.                          *)

InitOn(files) ==
    /\ csv \in files
    /\ pc = "start" /\ cache = NoCache /\ df = EmptyTable
    /\ countries = NoWidgets.countries /\ year_range = NoWidgets.year_range
    /\ question = NoWidgets.question
    /\ filtered_df = EmptyTable /\ view = EmptyTable /\ page = <<>>

(* df = load_data(), line 36.                                              *)
LoadStep ==
    /\ pc = "start"
    /\ LET loaded == CachedLoad(csv, cache)
       IN  /\ pc' = IF loaded.ok THEN "loaded" ELSE "stopped"
           /\ cache' = loaded
           /\ df' = loaded.df
           /\ page' = IF loaded.ok THEN <<>> ELSE <<"error">>
    /\ UNCHANGED <<csv, countries, year_range, question, filtered_df, view>>

(* Lines 51-55 for a selection sel and a year interval yr.                 *)
FilterWith(sel, yr) ==
    /\ pc = "loaded"
    /\ LET filt == FilterEngine(df, sel, yr)
       IN  /\ df' = filt.df
           /\ filtered_df' = filt.filtered_df
    /\ countries' = sel
    /\ year_range' = yr
    /\ pc' = "filtered"
    /\ UNCHANGED <<csv, cache, question, view, page>>

(* The branch of question q, lines 81-206.                                 *)
ViewOf(q) ==
    /\ LET shown == QuestionView(df, filtered_df, q)
       IN  /\ view' = shown.view
           /\ page' = page \o shown.page
    /\ question' = q
    /\ pc' = "viewed"
    /\ UNCHANGED <<csv, cache, df, countries, year_range, filtered_df>>

(* All sequences over S of length lo..hi.                                  *)
SeqsOf(S, lo, hi) == UNION {[1..n -> S] : n \in lo..hi}

(* Headers. *)
MaxHeaderLen == 4

HeaderChars == {"a", "%", " ", "\t", "_"}

HeaderFiles ==
    {File(<<date, h>>, << <<IsoDate(DefaultLo), Num(1)>> >>) :
        h \in SeqsOf(HeaderChars, 0, MaxHeaderLen)}

(* Records under headers spelt with spaces: dates that parse and dates that *)
(* do not beside a GDP that is missing or not, and, under a date that      *)
(* parses, GDP and population missing, zero or positive.                   *)
MaxLoadRows == 2

DateSamples ==
    {IsoDate(DefaultLo), IsoDate(DefaultLo + 1), <<>>, <<"n", "/", "a">>,
     <<"1", "9", "9", "0", "-", "0", "2", "-", "3", "0">>}

DatedRows ==
    {<<"China", d, g, Num(10)>> : d \in DateSamples, g \in {NaN, Num(100)}}

ValuedRows ==
    {<<"India", IsoDate(DefaultLo), g, p>> :
        g \in {NaN, Num(0), Num(100)}, p \in {NaN, Num(0), Num(10)}}

SpacedHeader ==
    <<country, <<" ", "d", "a", "t", "e">>,
      <<"G", "D", "P", " ", "c", "u", "r", "r", "e", "n", "t", " ", "U", "S", " ">>,
      population>>

RecordFiles ==
    LET full == {File(SpacedHeader, rws) :
                    rws \in SeqsOf(DatedRows, 0, MaxLoadRows)
                             \cup SeqsOf(ValuedRows, 0, MaxLoadRows)}
    IN  full \cup {WithoutColumn(f, population) : f \in full}
             \cup {WithoutColumn(f, <<" ", "d", "a", "t", "e">>) : f \in full}

LoadFiles == HeaderFiles \cup RecordFiles \cup {FileMissing}

SpecLoad == InitOn(LoadFiles) /\ [][LoadStep]_vars

(* Filter and mean-by-year: up to MaxFilterRows records, in any order, of   *)
(* two countries and two years, birth rates missing, 10 or 20.             *)
MaxFilterRows == 3

FilterHeader ==
    <<country, date, birth_rate, death_rate, raw_forest_land, raw_agricultural_land>>

FilterCountries == {"China", "India"}

FilterYears == {DefaultLo, DefaultLo + 1}

FilterRecord(c, y, b) ==
    <<c, IsoDate(y), b, IF notna(b) THEN NaN ELSE Num(5), FAdd(b, Num(1)), Num(7)>>

FilterRowsIn ==
    {FilterRecord("China", DefaultLo, b) : b \in {NaN, Num(10), Num(20)}}
    \cup {FilterRecord("China", DefaultLo + 1, b) : b \in {NaN, Num(10)}}
    \cup {FilterRecord("India", DefaultLo, Num(20)),
          FilterRecord("India", DefaultLo + 1, Num(10))}

FilterFiles ==
    {File(FilterHeader, rws) : rws \in SeqsOf(FilterRowsIn, 0, MaxFilterRows)}

(* Any selection of countries and any pair of years, lo > hi included.     *)
FilterStep ==
    \E sel \in SUBSET FilterCountries :
       \E lo \in FilterYears :
          \E hi \in FilterYears :
             FilterWith(sel, <<lo, hi>>)

MeanStep ==
    /\ pc = "filtered"
    /\ \E q \in {Q7, Q10} : ViewOf(q)

SpecFilter == InitOn(FilterFiles) /\ [][LoadStep \/ FilterStep \/ MeanStep]_vars

(* Top emitters: tables of up to MaxTopRows records, the CO2 values        *)
(* repeating a pattern of three (missing, 1 or 2) and the years a pattern  *)
(* of two, the population column numbering the records.                    *)
MaxTopRows == 12

TopHeader == <<country, date, CO2_emisions, population>>

TopFile(n, vals, yrs) ==
    File(TopHeader,
         [i \in 1..n |->
             <<CountryOrder[(i % Len(CountryOrder)) + 1], IsoDate(yrs[(i % 2) + 1]),
               vals[(i % 3) + 1], Num(i)>>])

TopFiles ==
    {TopFile(n, vals, yrs) :
        n \in 0..MaxTopRows,
        vals \in [1..3 -> {NaN, Num(1), Num(2)}],
        yrs \in [1..2 -> {DefaultLo, DefaultLo + 1}]}

TopStep ==
    /\ pc = "loaded"
    /\ ViewOf(Q3)

SpecTopN == InitOn(TopFiles) /\ [][LoadStep \/ TopStep]_vars

-----------------------------------------------------------------------------
(* Properties.                                                             *)

(* The positions in df of the records the selection asks for.              *)
Wanted ==
    {i \in DOMAIN df.rows :
        /\ Cell(df, df.rows[i], country) \in countries
        /\ year_range[1] <= Cell(df, df.rows[i], year)
        /\ Cell(df, df.rows[i], year) <= year_range[2]}

(* The sum of the integer values of column col over the rows rws[i], i in S. *)
RECURSIVE IntSum(_, _, _)
IntSum(rws, S, col) ==
    IF S = {} THEN 0
    ELSE LET i == CHOOSE j \in S : TRUE
         IN  rws[i][col][1] + IntSum(rws, S \ {i}, col)

(* m is the arithmetic mean of column col over rws[i], i in S; NaN for no i. *)
IsMeanOf(m, rws, S, col) ==
    IF S = {} THEN m = NaN
    ELSE m[2] > 0 /\ m[1] * Cardinality(S) = m[2] * IntSum(rws, S, col)

(* C1: the filtered table holds exactly the records of df whose country is *)
(* selected and whose year is within [lo, hi], in df's order: none left    *)
(* out, none added; so it has no more rows than df, and none when no       *)
(* country is selected or lo > hi.                                         *)
C1_FilterExact ==
    pc \in {"filtered", "viewed"} =>
        LET ks == Sorted(Wanted)
        IN  /\ filtered_df.columns = df.columns
            /\ Len(filtered_df.rows) = Len(ks)
            /\ \A k \in DOMAIN ks : filtered_df.rows[k] = df.rows[ks[k]]
            /\ Len(filtered_df.rows) <= Len(df.rows)
            /\ (countries = {} => filtered_df.rows = <<>>)
            /\ (year_range[1] > year_range[2] => filtered_df.rows = <<>>)

(* A filter that kept a record, left one out for its country and left one *)
(* out for its year.                                                       *)
C1_Witness ==
    /\ pc = "filtered"
    /\ filtered_df.rows # <<>>
    /\ \E i \in DOMAIN df.rows :
          /\ Cell(df, df.rows[i], country) \notin countries
          /\ InRange(Cell(df, df.rows[i], year), year_range)
    /\ \E i \in DOMAIN df.rows :
          /\ Cell(df, df.rows[i], country) \in countries
          /\ Cell(df, df.rows[i], year) > year_range[2]

(* C2: when the filter yields zero rows of a file that has every column,   *)
(* every question view that reads the filtered table shows a warning and   *)
(* draws no chart, without raising.                                        *)
C2_EveryViewWarnsOnEmpty ==
    ("selectbox" \in Range(page) /\ question \in FilteredQuestions
        /\ csv.columns = CsvHeader /\ filtered_df.rows = <<>>)
    => (pc = "done" /\ "warning" \in Range(page) /\ "pyplot" \notin Range(page))

(* C3: a loaded record whose population is zero or missing, or whose GDP   *)
(* is missing, has a missing GDP_per_capita.                               *)
C3_NoValueOnZeroPopulation ==
    (pc = "loaded" /\ HasColumn(df, GDP_per_capita)) =>
        \A i \in DOMAIN df.rows :
            (\/ Cell(df, df.rows[i], population) \in {Num(0), NaN}
             \/ Cell(df, df.rows[i], GDP_current_US) = NaN)
            => Cell(df, df.rows[i], GDP_per_capita) = NaN

(* C4: the Q1 view is one row per year of the full loaded table, holding   *)
(* the sum of that year's defined GDP values over all countries, whatever  *)
(* the country selection and the year range are.                           *)
C4_GlobalGdpIgnoresFilter ==
    (pc = "done" /\ question = Q1) =>
        LET t == load_data(csv).df
            g == ColIndex(t, GDP_current_US)
            ys == Sorted(Years(t))
        IN  /\ view.columns = <<year, GDP_current_US>>
            /\ Len(view.rows) = Len(ys)
            /\ \A k \in DOMAIN ys :
                  /\ view.rows[k][1] = ys[k]
                  /\ view.rows[k][2] =
                        Num(IntSum(t.rows,
                                   {i \in DOMAIN t.rows :
                                       /\ Cell(t, t.rows[i], year) = ys[k]
                                       /\ notna(t.rows[i][g])}, g))

(* Q1 drawn while one country and one year are selected.                   *)
C4_Witness ==
    /\ pc = "done" /\ question = Q1
    /\ countries = {"China"}
    /\ year_range = <<DefaultLo + 1, DefaultLo + 1>>
    /\ Len(view.rows) > Len(filtered_df.rows)

(* C5 as stated: on a failed load the error message is the only element of *)
(* the page.                                                               *)
C5_NothingButTheError ==
    ~load_data(csv).ok => (pc = "stopped" /\ Range(page) = {"error"})

(* C5 amended: on a failed load the run stops with the title, rendered     *)
(* before the load, and the error message on the page and nothing else: no *)
(* sidebar widget, divider, chart or insights block.                       *)
C5_TitleAndErrorOnly ==
    ~load_data(csv).ok =>
        /\ pc = "stopped"
        /\ page = <<"title", "error">>
        /\ ~cache.ok
        /\ filtered_df = EmptyTable /\ view = EmptyTable

C5_Witness ==
    /\ pc = "stopped"
    /\ csv.exists /\ csv.rows # <<>>
    /\ "error" \in Range(page)

(* C6: whatever the user has done, the table the script holds after a run  *)
(* and the cached table are the table load_data produces from the file.    *)
C6_TableNeverMutated ==
    cache.ok => (df = load_data(csv).df /\ cache.df = df)

(* A run after the user changed the countries, the years and the question, *)
(* with a filter that keeps some records and not others.                   *)
C6_Witness ==
    /\ pc = "done" /\ question = Q7
    /\ countries = {"India", "Brazil"}
    /\ year_range = <<DefaultLo, DefaultLo>>
    /\ filtered_df.rows # <<>>
    /\ Len(filtered_df.rows) < Len(df.rows)

(* C7: every header the normaliser produced is left unchanged by           *)
(* normalising it again.                                                   *)
C7_NormalizeIdempotent ==
    pc = "loaded" =>
        \A i \in DOMAIN csv.columns : NormalizeColumn(df.columns[i]) = df.columns[i]

(* A header whose '%' and inner space were replaced and whose leading      *)
(* whitespace was stripped.                                                *)
C7_Witness ==
    /\ pc = "loaded"
    /\ \E i \in DOMAIN csv.columns :
          /\ csv.columns[i] = <<"\t", "%", " ", "a">>
          /\ df.columns[i] = <<"p", "c", "t", "_", "a">>

(* C8: loading a file that has a date column never stops on a malformed    *)
(* date; the loaded table holds, in order, exactly the file's records      *)
(* whose date parses, each with its cells unchanged and the integer year   *)
(* of its date.                                                            *)
C8_ParseableKeptWithYear ==
    (csv.exists /\ date \in Range(NormalizeColumns(csv.columns))) =>
        /\ pc # "stopped"
        /\ pc = "loaded" =>
              LET d == ColIndex(df, date)
                  y == ColIndex(df, year)
                  ok == Sorted({i \in DOMAIN csv.rows : IsIsoDate(csv.rows[i][d])})
              IN  /\ Len(df.rows) = Len(ok)
                  /\ \A k \in DOMAIN ok :
                        /\ SubSeq(df.rows[k], 1, Len(csv.columns)) = csv.rows[ok[k]]
                        /\ df.rows[k][y] \in Int
                        /\ df.rows[k][y] = Decimal(SubSeq(df.rows[k][d], 1, 4))

(* Two records, one dropped for its date, one kept though its GDP is       *)
(* missing.                                                                *)
C8_Witness ==
    /\ pc = "loaded"
    /\ Len(csv.rows) = 2 /\ Len(df.rows) = 1
    /\ csv.rows[1][2] = <<"n", "/", "a">>
    /\ Cell(df, df.rows[1], GDP_current_US) = NaN
    /\ Cell(df, df.rows[1], year) = DefaultLo + 1

(* The records of df with a defined CO2 value in the latest year that has  *)
(* one, as positions in df.                                                *)
Emitters ==
    LET has == {i \in DOMAIN df.rows : notna(Cell(df, df.rows[i], CO2_emisions))}
    IN  {i \in has : \A j \in has :
            Cell(df, df.rows[j], year) <= Cell(df, df.rows[i], year)}

(* C9: the Q3 view holds min(10, number of emitters) rows, each a record   *)
(* of the latest year with a defined CO2 value, in descending order of the *)
(* value; no record left out has a larger value than one shown; records of *)
(* equal value are shown in their original order, and one left out comes   *)
(* after the shown records of its value.  The population column numbers    *)
(* the records of these tables, which tells their original order.          *)
C9_TopTen ==
    (pc = "viewed" /\ question = Q3 /\ Emitters # {}) =>
        LET c == ColIndex(df, CO2_emisions)
            id == ColIndex(df, population)
            shown == {view.rows[k][id] : k \in DOMAIN view.rows}
        IN  /\ Len(view.rows) <= 10
            /\ Len(view.rows) = IF Cardinality(Emitters) < 10
                                THEN Cardinality(Emitters) ELSE 10
            /\ \A k \in DOMAIN view.rows :
                  \E i \in Emitters : view.rows[k] = df.rows[i]
            /\ \A k \in DOMAIN view.rows : \A l \in DOMAIN view.rows :
                  k < l =>
                     /\ ~FLess(view.rows[k][c], view.rows[l][c])
                     /\ view.rows[k][c] = view.rows[l][c]
                           => FLess(view.rows[k][id], view.rows[l][id])
            /\ \A i \in Emitters :
                  df.rows[i][id] \notin shown =>
                     \A k \in DOMAIN view.rows :
                        /\ ~FLess(view.rows[k][c], df.rows[i][c])
                        /\ view.rows[k][c] = df.rows[i][c]
                              => FLess(view.rows[k][id], df.rows[i][id])

(* More than ten emitters in the latest year, with a tie across the cut.   *)
C9_Witness ==
    /\ pc = "viewed" /\ question = Q3
    /\ Cardinality(Emitters) > TopN
    /\ Len(view.rows) = TopN
    /\ FLess(view.rows[TopN][3], view.rows[1][3])
    /\ \E i \in Emitters :
          /\ df.rows[i][4] \notin {view.rows[k][4] : k \in DOMAIN view.rows}
          /\ df.rows[i][3] = view.rows[TopN][3]

(* C10: the Q7 and Q10 views hold one row per year of the filtered         *)
(* records, in increasing order of the year, with for each of the two      *)
(* columns the mean of the defined values of that year's selected records  *)
(* (missing when there is none).                                           *)
C10_MeanOfDefined ==
    (pc = "viewed" /\ question \in {Q7, Q10}) =>
        LET c1 == ColIndex(df, IF question = Q7 THEN birth_rate ELSE forest_landpct)
            c2 == ColIndex(df, IF question = Q7 THEN death_rate ELSE agricultural_landpct)
            ys == Sorted({Cell(df, df.rows[i], year) : i \in Wanted})
            Defined(y, c) == {i \in Wanted : /\ Cell(df, df.rows[i], year) = y
                                             /\ notna(df.rows[i][c])}
        IN  /\ Len(view.rows) = Len(ys)
            /\ \A k \in DOMAIN ys :
                  /\ view.rows[k][1] = ys[k]
                  /\ IsMeanOf(view.rows[k][2], df.rows, Defined(ys[k], c1), c1)
                  /\ IsMeanOf(view.rows[k][3], df.rows, Defined(ys[k], c2), c2)

(* Birth rates 10, missing and 20 of one year's selected records give 15.  *)
C10_Witness ==
    /\ pc = "viewed" /\ question = Q7
    /\ Len(df.rows) = 3 /\ Len(filtered_df.rows) = 3
    /\ Column(filtered_df, birth_rate) = <<Num(10), NaN, Num(20)>>
    /\ view.rows = << <<DefaultLo, Num(15), Num(5)>> >>
====
